---- MODULE Spec2Model ----
(***************************************************************************)
(* Model of helm-chart/build.py: the `build` subcommand, which builds and  *)
(* optionally pushes the binderhub image, stamps values.yaml and           *)
(* Chart.yaml with git short hashes, and optionally publishes the chart.   *)
(*                                                                         *)
(* Strings are sequences of tokens; "-" is the hyphen, the only character  *)
(* str.split('-') looks at.  A git repository is the sequence of its       *)
(* commits, each the set of files it touches; commit n has short hash      *)
(* Hash(n).  Every external tool invocation is appended to `log` with its  *)
(* exit status, and so is every write of one of the two documents.         *)
(***************************************************************************)
EXTENDS Integers, Sequences, FiniteSets, TLC

\* Bound on the number of commits of the repository.
MaxCommits == 2

None == <<"None">>

(***************************************************************************)
(* Paths (module-level constants of build.py).                             *)
(***************************************************************************)
ROOTPATH == "."
BASEPATH == "helm-chart"
CHARTPATH == "helm-chart/binderhub"
NAME == <<"binderhub">>
PYPKGPATH == "binderhub"
SETUP_PY == "setup.py"
IMAGE_PATH == "helm-chart/images/binderhub"
IMAGE_FILES == <<SETUP_PY, PYPKGPATH, IMAGE_PATH>>
CHART_FILES == IMAGE_FILES \o <<CHARTPATH>>

\* The files of the work tree a commit can touch, one per directory that a
\* pathspec of build.py tells apart.
Files == {"setup.py", "binderhub/app.py", "helm-chart/images/binderhub/Dockerfile",
          "helm-chart/binderhub/Chart.yaml", "helm-chart/build.py", "README.rst"}

\* The files a git pathspec selects: the file itself or all files below the directory.
Under(path) ==
  CASE path = SETUP_PY -> {"setup.py"}
    [] path = PYPKGPATH -> {"binderhub/app.py"}
    [] path = IMAGE_PATH -> {"helm-chart/images/binderhub/Dockerfile"}
    [] path = CHARTPATH -> {"helm-chart/binderhub/Chart.yaml"}
    [] path = BASEPATH -> {"helm-chart/images/binderhub/Dockerfile",
                           "helm-chart/binderhub/Chart.yaml", "helm-chart/build.py"}
    [] path = ROOTPATH -> Files

Selected(paths) == UNION {Under(paths[k]) : k \in 1..Len(paths)}

\* What one commit may touch.
TouchSets == {{f} : f \in Files}

HexDigits == <<"0", "1", "2", "3", "4", "5", "6", "7", "8", "9", "a", "b", "c", "d", "e", "f">>

\* %h of the n-th commit: an abbreviated hexadecimal object name (no hyphen in it).
Hash(n) == <<HexDigits[((7 * n) % 16) + 1] , HexDigits[((3 * n + 5) % 16) + 1]>>

VARIABLES
  history,        \* the repository: history[n] = files touched by commit n
  args,           \* parsed command line: image_prefix, commit_range, push, cwd
  pc,             \* position of the script
  idx,            \* build_images: index of `image` in `images`
  tag,            \* local `tag` of build_images / value computed in build_values
  version,        \* local `version` of build_chart and of publish_pages
  chart_version,  \* main: value returned by build_chart
  values,         \* values.yaml: the image mapping
  chart,          \* Chart.yaml: the version field
  ghPages,        \* does the local clone directory gh-pages exist
  log,            \* tool invocations and file writes of this run, in order
  committed,      \* has a commit been added since the run started
  seen            \* repository length read by the stamping git log calls

vars == <<history, args, pc, idx, tag, version, chart_version, values, chart,
          ghPages, log, committed, seen>>

(***************************************************************************)
(* git, as the script queries it.                                          *)
(***************************************************************************)
Max(S) == CHOOSE m \in S : \A n \in S : n <= m

\* The commits of hist that touch a file selected by paths.
Touching(paths, hist) == {n \in 1..Len(hist) : hist[n] \cap Selected(paths) # {}}

\* Output of `git log -n 1 --pretty=format:%h -- paths` on repository hist:
\* the short hash of the last commit touching the paths, or nothing.
GitLog(paths, hist) ==
  IF Touching(paths, hist) = {} THEN <<>> ELSE Hash(Max(Touching(paths, hist)))

\* git log exits non-zero on a repository without commits.
GitLogRuns(hist) == hist # <<>>

last_git_modified(paths) == GitLog(paths, history)

\* Output of `git diff --name-only range -- paths` is non-empty.
path_changed(paths, range) ==
  (UNION {history[n] : n \in (range[1] + 1)..range[2]}) \cap Selected(paths) # {}

(***************************************************************************)
(* Strings.                                                                *)
(***************************************************************************)
\* Index of the first sep in s, 0 when there is none.
RECURSIVE Find(_, _, _)
Find(s, sep, from) ==
  IF from > Len(s) THEN 0
  ELSE IF s[from] = sep THEN from
  ELSE Find(s, sep, from + 1)

\* str.split(sep): the list of the parts of s between the separators.
RECURSIVE split(_, _)
split(s, sep) ==
  IF Find(s, sep, 1) = 0 THEN <<s>>
  ELSE <<SubSeq(s, 1, Find(s, sep, 1) - 1)>>
         \o split(SubSeq(s, Find(s, sep, 1) + 1, Len(s)), sep)

\* '{}{}:{}'.format(prefix, image, tag)
image_spec(prefix, image, t) == prefix \o image \o <<":">> \o t

\* Faulty variant of NewChartVersion: takes the last part of the split (index -1).
NewChartVersionLastPart(old, v) ==
  split(old, "-")[Len(split(old, "-"))] \o <<"-">> \o v

\* Faulty variant of NewChartVersion: appends to the whole old version.
NewChartVersionAppend(old, v) == old \o <<"-">> \o v

\* chart['version'].split('-')[0] + '-' + version
NewChartVersion(old, v) == split(old, "-")[1] \o <<"-">> \o v

\* values['image']['name'] = prefix + NAME; values['image']['tag'] = <git log output>
NewValues(old, prefix, t) == [old EXCEPT !.name = prefix \o NAME, !.tag = t]

(***************************************************************************)
(* Command line and initial files.                                         *)
(***************************************************************************)
images == <<NAME>>

DefaultPrefix == <<"jupyterhub/k8s", "-">>
Prefixes == {DefaultPrefix, <<"acme/k8s", "-">>}

\* --commit-range a..b, a and b commits of the repository (0: before the first).
Ranges == {r \in (0..Len(history)) \X (0..Len(history)) : r[1] < r[2]}

Args == [action : {"build", "none"}, image_prefix : Prefixes,
         commit_range : {None} \cup Ranges, push : BOOLEAN, cwd : {ROOTPATH, BASEPATH}]

InitVersions == {<<"0.2.0">>, <<"0.2.0", "-", "rc1", "-", "9", "f">>}

InitValues == [name |-> <<"jupyterhub/k8s", "-", "binderhub">>, tag |-> <<"local">>]

Init ==
  /\ history = <<>>
  /\ args = [action |-> "none", image_prefix |-> DefaultPrefix, commit_range |-> None,
             push |-> FALSE, cwd |-> ROOTPATH]
  /\ pc = "idle"
  /\ idx = 1
  /\ tag = <<>>
  /\ version = <<>>
  /\ chart_version = <<>>
  /\ values = InitValues
  /\ chart \in [version : InitVersions]
  /\ ghPages \in BOOLEAN
  /\ log = <<>>
  /\ committed = FALSE
  /\ seen = [values |-> 0, chart |-> 0]

(***************************************************************************)
(* External tool invocations.                                              *)
(***************************************************************************)
Invoke(cmd, arg, ok) == log' = Append(log, [cmd |-> cmd, arg |-> arg, ok |-> ok])

\* Faulty variant of Checked: subprocess.call, which ignores the exit status.
Unchecked(ok, next) == pc' = next

\* subprocess.check_call / check_output: a non-zero exit status raises
\* CalledProcessError, which nothing catches: the script ends there.
Checked(ok, next) == pc' = IF ok THEN next ELSE "failed"

\* Faulty variant of check_call: a failing step removes the clone directory.
check_call_cleanup(here, cmd, arg, next) ==
  /\ pc = here
  /\ \E ok \in BOOLEAN :
       /\ Invoke(cmd, arg, ok)
       /\ Checked(ok, next)
       /\ ghPages' = (ghPages /\ ok)
  /\ UNCHANGED <<history, args, idx, tag, version, chart_version, values, chart,
                 committed, seen>>

\* A check_call step of publish_pages that changes nothing the model tracks.
check_call(here, cmd, arg, next) ==
  /\ pc = here
  /\ \E ok \in BOOLEAN : Invoke(cmd, arg, ok) /\ Checked(ok, next)
  /\ UNCHANGED <<history, args, idx, tag, version, chart_version, values, chart,
                 ghPages, committed, seen>>

(***************************************************************************)
(* The environment: somebody commits to the repository.                    *)
(***************************************************************************)
Commit ==
  /\ pc \notin {"done", "failed"}
  /\ Len(history) < MaxCommits
  /\ \E t \in TouchSets : history' = Append(history, t)
  /\ committed' = (committed \/ pc # "idle")
  /\ UNCHANGED <<args, pc, idx, tag, version, chart_version, values, chart,
                 ghPages, log, seen>>

(***************************************************************************)
(* main                                                                    *)
(***************************************************************************)
Main ==
  /\ pc = "idle"
  /\ \E a \in Args :
       /\ args' = a
       /\ pc' = IF a.action = "build" THEN "bi_loop" ELSE "done"
  /\ idx' = 1
  /\ UNCHANGED <<history, tag, version, chart_version, values, chart,
                 ghPages, log, committed, seen>>

(***************************************************************************)
(* build_images                                                            *)
(***************************************************************************)
\* for image in images: / if commit_range:
BuildImagesLoop ==
  /\ pc = "bi_loop"
  /\ pc' = IF idx > Len(images) THEN "bv_tag"
           ELSE IF args.commit_range # None THEN "bi_diff" ELSE "bi_tag"
  /\ UNCHANGED <<history, args, idx, tag, version, chart_version, values, chart,
                 ghPages, log, committed, seen>>

\* Faulty variant of BuildImagesDiff: the outcome of path_changed is not used.
BuildImagesDiffNoSkip ==
  /\ pc = "bi_diff"
  /\ \E ok \in BOOLEAN : Invoke("git diff", <<>>, ok) /\ Checked(ok, "bi_tag")
  /\ UNCHANGED <<history, args, idx, tag, version, chart_version, values, chart,
                 ghPages, committed, seen>>

\* Faulty variant of BuildImagesDiff: an untouched image ends the run (return
\* instead of continue, with the stamping inside build_images' caller skipped).
BuildImagesDiffReturn ==
  /\ pc = "bi_diff"
  /\ \E ok \in BOOLEAN :
       IF ok /\ ~path_changed(IMAGE_FILES, args.commit_range)
       THEN /\ log' = log \o <<[cmd |-> "git diff", arg |-> <<>>, ok |-> TRUE],
                               [cmd |-> "print Skipping", arg |-> images[idx], ok |-> TRUE]>>
            /\ pc' = "done"
       ELSE /\ Invoke("git diff", <<>>, ok)
            /\ Checked(ok, "bi_tag")
  /\ UNCHANGED <<history, args, idx, tag, version, chart_version, values, chart,
                 ghPages, committed, seen>>

\* if not path_changed(IMAGE_FILES, commit_range): print("Skipping ..."); continue
BuildImagesDiff ==
  /\ pc = "bi_diff"
  /\ \E ok \in BOOLEAN :
       IF ok /\ ~path_changed(IMAGE_FILES, args.commit_range)
       THEN /\ log' = log \o <<[cmd |-> "git diff", arg |-> <<>>, ok |-> TRUE],
                               [cmd |-> "print Skipping", arg |-> images[idx], ok |-> TRUE]>>
            /\ pc' = "bi_loop"
            /\ idx' = idx + 1
       ELSE /\ Invoke("git diff", <<>>, ok)
            /\ Checked(ok, "bi_tag")
            /\ idx' = idx
  /\ UNCHANGED <<history, args, tag, version, chart_version, values, chart,
                 ghPages, committed, seen>>

\* tag = last_git_modified(IMAGE_FILES)
BuildImagesTag ==
  /\ pc = "bi_tag"
  /\ \E ok \in {b \in BOOLEAN : b => GitLogRuns(history)} :
       /\ Invoke("git log", <<>>, ok)
       /\ Checked(ok, "bi_build")
       /\ tag' = IF ok THEN last_git_modified(IMAGE_FILES) ELSE tag
  /\ UNCHANGED <<history, args, idx, version, chart_version, values, chart,
                 ghPages, committed, seen>>

\* Faulty variant of BuildImagesBuild: pushes whatever --push says.
BuildImagesBuildAlwaysPush ==
  /\ pc = "bi_build"
  /\ \E ok \in BOOLEAN :
       /\ Invoke("docker build", image_spec(args.image_prefix, images[idx], tag), ok)
       /\ Checked(ok, "bi_push")
  /\ UNCHANGED <<history, args, idx, tag, version, chart_version, values, chart,
                 ghPages, committed, seen>>

\* check_call(['docker', 'build', '-t', image_spec, ...]) / if push:
BuildImagesBuild ==
  /\ pc = "bi_build"
  /\ \E ok \in BOOLEAN :
       /\ Invoke("docker build", image_spec(args.image_prefix, images[idx], tag), ok)
       /\ Checked(ok, IF args.push THEN "bi_push" ELSE "bi_loop")
       /\ idx' = IF ok /\ ~args.push THEN idx + 1 ELSE idx
  /\ UNCHANGED <<history, args, tag, version, chart_version, values, chart,
                 ghPages, committed, seen>>

\* check_call(['docker', 'push', image_spec])
BuildImagesPush ==
  /\ pc = "bi_push"
  /\ \E ok \in BOOLEAN :
       /\ Invoke("docker push", image_spec(args.image_prefix, images[idx], tag), ok)
       /\ Checked(ok, "bi_loop")
       /\ idx' = IF ok THEN idx + 1 ELSE idx
  /\ UNCHANGED <<history, args, tag, version, chart_version, values, chart,
                 ghPages, committed, seen>>

(***************************************************************************)
(* build_values                                                            *)
(***************************************************************************)
\* Faulty variant of BuildValuesTag: the tag is the last commit of the repository.
BuildValuesTagHead ==
  /\ pc = "bv_tag"
  /\ \E ok \in {b \in BOOLEAN : b => GitLogRuns(history)} :
       /\ Invoke("git log", <<>>, ok)
       /\ Checked(ok, "bv_write")
       /\ tag' = IF ok THEN last_git_modified(<<ROOTPATH>>) ELSE tag
       /\ seen' = IF ok THEN [seen EXCEPT !.values = Len(history)] ELSE seen
  /\ UNCHANGED <<history, args, idx, version, chart_version, values, chart,
                 ghPages, committed>>

\* values = yaml.load(f) / values['image']['tag'] = last_git_modified(IMAGE_FILES)
BuildValuesTag ==
  /\ pc = "bv_tag"
  /\ \E ok \in {b \in BOOLEAN : b => GitLogRuns(history)} :
       /\ Invoke("git log", <<>>, ok)
       /\ Checked(ok, "bv_write")
       /\ tag' = IF ok THEN last_git_modified(IMAGE_FILES) ELSE tag
       /\ seen' = IF ok THEN [seen EXCEPT !.values = Len(history)] ELSE seen
  /\ UNCHANGED <<history, args, idx, version, chart_version, values, chart,
                 ghPages, committed>>

\* values['image']['name'] = prefix + NAME / yaml.dump(values, f)
BuildValuesWrite ==
  /\ pc = "bv_write"
  /\ values' = NewValues(values, args.image_prefix, tag)
  /\ Invoke("write values.yaml", tag, TRUE)
  /\ pc' = "bc_version"
  /\ UNCHANGED <<history, args, idx, tag, version, chart_version, chart,
                 ghPages, committed, seen>>

(***************************************************************************)
(* build_chart                                                             *)
(***************************************************************************)
\* The paths build_chart asks git about.
build_chart_paths == <<BASEPATH>> \o IMAGE_FILES

\* version = last_git_modified([BASEPATH] + IMAGE_FILES)
BuildChartVersion ==
  /\ pc = "bc_version"
  /\ \E ok \in {b \in BOOLEAN : b => GitLogRuns(history)} :
       /\ Invoke("git log", <<>>, ok)
       /\ Checked(ok, "bc_write")
       /\ version' = IF ok THEN last_git_modified(build_chart_paths) ELSE version
       /\ seen' = IF ok THEN [seen EXCEPT !.chart = Len(history)] ELSE seen
  /\ UNCHANGED <<history, args, idx, tag, chart_version, values, chart,
                 ghPages, committed>>

\* raw_version = chart['version'] / chart['version'] = ... / yaml.dump / return raw_version
\* main: chart_version = build_chart() / if args.push:
BuildChartWrite ==
  /\ pc = "bc_write"
  /\ chart' = [chart EXCEPT !.version = NewChartVersion(chart.version, version)]
  /\ Invoke("write Chart.yaml", chart'.version, TRUE)
  /\ chart_version' = chart.version
  /\ pc' = IF args.push THEN "pp_version" ELSE "done"
  /\ UNCHANGED <<history, args, idx, tag, version, values,
                 ghPages, committed, seen>>

(***************************************************************************)
(* publish_pages                                                           *)
(***************************************************************************)
\* version = last_git_modified('.'): the paths below the working directory
PublishVersion ==
  /\ pc = "pp_version"
  /\ \E ok \in {b \in BOOLEAN : b => GitLogRuns(history)} :
       /\ Invoke("git log", <<>>, ok)
       /\ Checked(ok, "pp_clone")
       /\ version' = IF ok THEN last_git_modified(<<args.cwd>>) ELSE version
  /\ UNCHANGED <<history, args, idx, tag, chart_version, values, chart,
                 ghPages, committed, seen>>

\* git clone --no-checkout ... gh-pages: git refuses a destination that exists
\* and is not empty, and removes what it created when it fails.
PublishClone ==
  /\ pc = "pp_clone"
  /\ \E ok \in {b \in BOOLEAN : b => ~ghPages} :
       /\ Invoke("git clone", <<>>, ok)
       /\ Checked(ok, "pp_checkout")
       /\ ghPages' = (ghPages \/ ok)
  /\ UNCHANGED <<history, args, idx, tag, version, chart_version, values, chart,
                 committed, seen>>

\* Faulty variant of PublishCheckout: goes on to helm package without the chart repo source.
PublishCheckoutThenPackage == check_call("pp_checkout", "git checkout", <<>>, "pp_package")

PublishCheckout == check_call("pp_checkout", "git checkout", <<>>, "pp_repo_add")

PublishRepoAdd == check_call("pp_repo_add", "helm repo add", <<>>, "pp_repo_update")

PublishRepoUpdate == check_call("pp_repo_update", "helm repo update", <<>>, "pp_package")

PublishPackage == check_call("pp_package", "helm package", <<>>, "pp_index")

PublishIndex == check_call("pp_index", "helm repo index", <<>>, "pp_add")

PublishAdd == check_call("pp_add", "git add", <<>>, "pp_commit")

\* git commit -m '[binderhub] Automatic update for commit {}'.format(version)
PublishCommit == check_call("pp_commit", "git commit", version, "pp_push")

PublishPush == check_call("pp_push", "git push", <<>>, "done")

publish_pages ==
  \/ PublishVersion
  \/ PublishClone
  \/ PublishCheckout
  \/ PublishRepoAdd
  \/ PublishRepoUpdate
  \/ PublishPackage
  \/ PublishIndex
  \/ PublishAdd
  \/ PublishCommit
  \/ PublishPush

build_images == BuildImagesLoop \/ BuildImagesDiff \/ BuildImagesTag \/ BuildImagesBuild \/ BuildImagesPush

build_values == BuildValuesTag \/ BuildValuesWrite

build_chart == BuildChartVersion \/ BuildChartWrite

Next == Commit \/ Main \/ build_images \/ build_values \/ build_chart \/ publish_pages

Spec == Init /\ [][Next]_vars

(***************************************************************************)
(* The two stamping functions on their own, called any number of times on  *)
(* arbitrary documents while the repository grows: build_values and        *)
(* build_chart each as one step.  idx counts the calls.                    *)
(***************************************************************************)
\* Bound on the number of stamping calls.
MaxStamps == 4

StampVersions == {<<"0.2.0">>, <<"1.2.3", "-", "abc123">>, <<"0.2.0", "-", "rc1", "-", "9", "f">>,
                  <<"-", "9", "f">>, <<>>}

StampValuesDocs == {InitValues, [name |-> <<"acme/k8s", "-", "binderhub">>, tag |-> <<>>]}

InitStamp ==
  /\ history = <<>>
  /\ args \in [action : {"build"}, image_prefix : Prefixes, commit_range : {None},
               push : {FALSE}, cwd : {ROOTPATH}]
  /\ pc = "stamp"
  /\ idx = 0
  /\ tag = <<>>
  /\ version = <<>>
  /\ chart_version = <<>>
  /\ values \in StampValuesDocs
  /\ chart \in [version : StampVersions]
  /\ ghPages = FALSE
  /\ log = <<>>
  /\ committed = FALSE
  /\ seen = [values |-> 0, chart |-> 0]

\* build_values(prefix), when its git log succeeds
StampValues ==
  /\ pc \in {"stamp", "build_values", "build_chart"}
  /\ idx < MaxStamps
  /\ GitLogRuns(history)
  /\ tag' = last_git_modified(IMAGE_FILES)
  /\ values' = NewValues(values, args.image_prefix, tag')
  /\ seen' = [seen EXCEPT !.values = Len(history)]
  /\ pc' = "build_values"
  /\ idx' = idx + 1
  /\ UNCHANGED <<history, args, version, chart_version, chart, ghPages, log, committed>>

\* build_chart(), when its git log succeeds
StampChart ==
  /\ pc \in {"stamp", "build_values", "build_chart"}
  /\ idx < MaxStamps
  /\ GitLogRuns(history)
  /\ version' = last_git_modified(build_chart_paths)
  /\ chart' = [chart EXCEPT !.version = NewChartVersion(chart.version, version')]
  /\ chart_version' = chart.version
  /\ seen' = [seen EXCEPT !.chart = Len(history)]
  /\ pc' = "build_chart"
  /\ idx' = idx + 1
  /\ UNCHANGED <<history, args, tag, values, ghPages, log, committed>>

NextStamp == Commit \/ StampValues \/ StampChart

SpecStamp == InitStamp /\ [][NextStamp]_vars

(***************************************************************************)
(* Vocabulary of the properties, stated on files and commits directly.     *)
(***************************************************************************)
ImageContributing == {"setup.py", "binderhub/app.py", "helm-chart/images/binderhub/Dockerfile"}

ChartContributing == ImageContributing \cup {"helm-chart/binderhub/Chart.yaml"}

\* lastChanged(files) on repository hist: the short identifier of the most
\* recent commit touching any of the files; empty when there is none.
lastChanged(files, hist) ==
  IF \E n \in 1..Len(hist) : hist[n] \cap files # {}
  THEN Hash(CHOOSE n \in 1..Len(hist) :
              /\ hist[n] \cap files # {}
              /\ \A m \in (n + 1)..Len(hist) : hist[m] \cap files = {})
  ELSE <<>>

\* The repository as it was when it had n commits.
Upto(n) == SubSeq(history, 1, n)

\* Positions of the log where cmd ran / ran with exit status 0.
Ran(cmd) == {k \in 1..Len(log) : log[k].cmd = cmd}
Succeeded(cmd) == {k \in Ran(cmd) : log[k].ok}

ImagePcs == {"bi_loop", "bi_diff", "bi_tag", "bi_build", "bi_push"}
PublishPcs == {"pp_version", "pp_clone", "pp_checkout", "pp_repo_add", "pp_repo_update",
               "pp_package", "pp_index", "pp_add", "pp_commit", "pp_push"}
PublishSteps == <<"git clone", "git checkout", "helm repo add", "helm repo update",
                  "helm package", "helm repo index", "git add", "git commit", "git push">>
PublishCmds == {PublishSteps[k] : k \in 1..Len(PublishSteps)}

\* The files changed over the commit range of this run.
ChangedInRange ==
  UNION {history[n] : n \in (args.commit_range[1] + 1)..args.commit_range[2]}

\* A build run whose commit range touches no image-contributing file.
UntouchedRange ==
  /\ args.action = "build"
  /\ args.commit_range # None
  /\ ChangedInRange \cap ImageContributing = {}

\* A build run without commit range during which nobody has committed.
QuietRun == args.action = "build" /\ args.commit_range = None /\ ~committed

\* Position of the first hyphen of s; Len(s) + 1 when it has none.
FirstHyphen(s) ==
  IF \E k \in 1..Len(s) : s[k] = "-"
  THEN CHOOSE k \in 1..Len(s) : s[k] = "-" /\ \A j \in 1..(k - 1) : s[j] # "-"
  ELSE Len(s) + 1

\* versionPrefix: everything before the first hyphen.
versionPrefix(s) == SubSeq(s, 1, FirstHyphen(s) - 1)

\* The publish_pages entries of the log, in order.
IsPublishEntry(e) == e.cmd \in PublishCmds

PublishLog == SelectSeq(log, IsPublishEntry)

\* Both documents were stamped on the repository as it is now.
StampedOnThisTree ==
  Len(history) > 0 /\ seen.values = Len(history) /\ seen.chart = Len(history)

(***************************************************************************)
(* C1: in a build run whose commit range changed none of the               *)
(* image-contributing paths, docker build and docker push are never        *)
(* invoked, and no step of the image stage alters values.yaml.             *)
(***************************************************************************)
C1_BuildSkip ==
  /\ [](UntouchedRange => Ran("docker build") = {} /\ Ran("docker push") = {})
  /\ [][(pc \in ImagePcs) => (values' = values)]_vars

\* A run with an untouched range went through the skip and finished.
C1_Witness ==
  /\ UntouchedRange
  /\ pc = "done"
  /\ Ran("print Skipping") # {}
  /\ values.tag = lastChanged(ImageContributing, history)
  /\ values.tag # <<>>

(***************************************************************************)
(* C2: without --push no docker push and no step of publish_pages is ever  *)
(* executed; a docker push happens only with --push and only right after   *)
(* the successful docker build of the same image reference.                *)
(***************************************************************************)
C2_NoPushNoPublish ==
  /\ ~args.push =>
       /\ pc \notin PublishPcs \cup {"bi_push"}
       /\ \A k \in 1..Len(log) : log[k].cmd \notin PublishCmds \cup {"docker push"}
  /\ \A k \in Ran("docker push") :
       /\ args.push
       /\ k > 1
       /\ log[k - 1] = [cmd |-> "docker build", arg |-> log[k].arg, ok |-> TRUE]

\* A run without --push built its image and finished; nothing was pushed.
C2_Witness ==
  /\ pc = "done"
  /\ args.action = "build"
  /\ ~args.push
  /\ Succeeded("docker build") # {}

(***************************************************************************)
(* C3: in a build run without commit range during which nobody commits,    *)
(* at most one image is built, and once the image stage is over exactly    *)
(* one; its reference is prefix + "binderhub" + ":" + t, t the short       *)
(* identifier of the latest commit touching an image-contributing path;    *)
(* every write of values.yaml writes that t, and leaves image.name =       *)
(* prefix + "binderhub" and image.tag = t = lastChanged(IMAGE_FILES).      *)
(***************************************************************************)
C3_OneImageSameTag ==
  QuietRun =>
    LET t == lastChanged(ImageContributing, history)
        name == args.image_prefix \o <<"binderhub">>
    IN /\ Cardinality(Ran("docker build")) <= 1
       /\ \A k \in Ran("docker build") : log[k].arg = name \o <<":">> \o t
       /\ pc \notin ImagePcs \cup {"idle", "failed"} =>
            Cardinality(Succeeded("docker build")) = 1
       /\ \A k \in Ran("write values.yaml") : log[k].arg = t
       /\ Ran("write values.yaml") # {} => values = [name |-> name, tag |-> t]

\* A quiet run without range finished; the commit that gives the tag is not the newest.
C3_Witness ==
  /\ QuietRun
  /\ pc = "done"
  /\ Len(history) = 2
  /\ values.tag = Hash(1)
  /\ \E k \in Succeeded("docker build") : log[k].arg = values.name \o <<":">> \o Hash(1)

(***************************************************************************)
(* C4: the suffix build_chart writes into Chart.yaml is                    *)
(* lastChanged(CHART_FILES): the short identifier of the most recent       *)
(* commit touching an image-contributing path or the chart directory, and  *)
(* no other path.                                                          *)
(***************************************************************************)
C4_ChartSuffix ==
  \A k \in Ran("write Chart.yaml") :
    log[k].arg = versionPrefix(chart_version) \o <<"-">>
                   \o lastChanged(ChartContributing, Upto(seen.chart))

(***************************************************************************)
(* C5: every rewrite by build_chart keeps the part of `version` before     *)
(* the first hyphen, whatever the number of hyphens of the old version,    *)
(* and replaces the rest by the new identifier; build_chart returns the    *)
(* version string it found.                                                *)
(***************************************************************************)
C5_PrefixPreserved ==
  [][/\ versionPrefix(chart'.version) = versionPrefix(chart.version)
     /\ (pc' = "build_chart" /\ idx' # idx) =>
          /\ chart'.version = versionPrefix(chart.version) \o <<"-">> \o version'
          /\ chart_version' = chart.version]_vars

\* "1.2.3-abc123" was rewritten twice, on two different commits.
C5_Witness ==
  /\ pc = "build_chart"
  /\ chart_version = <<"1.2.3", "-">> \o Hash(1)
  /\ chart.version = <<"1.2.3", "-">> \o Hash(2)

(***************************************************************************)
(* C6: an external tool invocation that returns a non-zero status is the   *)
(* last thing the run does: it ends in the failed state, no later step is  *)
(* executed and the invocation is not repeated.                            *)
(***************************************************************************)
C6_FailFast ==
  \A k \in 1..Len(log) :
    ~log[k].ok =>
      /\ k = Len(log)
      /\ pc = "failed"
      /\ ~ENABLED (Main \/ build_images \/ build_values \/ build_chart \/ publish_pages)

\* docker push failed after a successful docker build.
C6_Witness ==
  /\ pc = "failed"
  /\ Len(log) > 1
  /\ log[Len(log)].cmd = "docker push"
  /\ ~log[Len(log)].ok

(***************************************************************************)
(* C7: the steps of publish_pages run in the order clone, checkout, helm   *)
(* repo add, helm repo update, helm package, helm repo index, git add,     *)
(* git commit, git push, each only after the one before it succeeded; the  *)
(* commit message carries the identifier git log gave publish_pages; no    *)
(* step of it runs before values.yaml and Chart.yaml were written.         *)
(***************************************************************************)
C7_PublishOrder ==
  /\ Len(PublishLog) <= Len(PublishSteps)
  /\ \A k \in 1..Len(PublishLog) :
       /\ PublishLog[k].cmd = PublishSteps[k]
       /\ k < Len(PublishLog) => PublishLog[k].ok
  /\ \A k \in Ran("git commit") :
       /\ log[k].arg = version
       /\ ~committed => log[k].arg = lastChanged(Under(args.cwd), history)
  /\ \A k \in 1..Len(log) :
       log[k].cmd \in PublishCmds =>
         /\ \E w \in Ran("write values.yaml") : w < k
         /\ \E w \in Ran("write Chart.yaml") : w < k

\* The whole publish sequence ran and the push succeeded.
C7_Witness ==
  /\ pc = "done"
  /\ Succeeded("git push") # {}
  /\ Len(PublishLog) = Len(PublishSteps)

(***************************************************************************)
(* C8: once values.yaml and Chart.yaml were both stamped on the current    *)
(* repository, stamping either of them again without a commit in between   *)
(* leaves both documents as they are.                                      *)
(***************************************************************************)
C8_Idempotent ==
  [][(StampedOnThisTree /\ history' = history) => (values' = values /\ chart' = chart)]_vars

\* Four stamping calls on the same one-commit repository, both documents stamped.
C8_Witness ==
  /\ StampedOnThisTree
  /\ Len(history) = 1
  /\ idx = 4
  /\ chart.version = <<"0.2.0", "-">> \o Hash(1)

(***************************************************************************)
(* C9: nothing removes the clone directory gh-pages: once it exists it     *)
(* exists for the rest of the run, so after a publish_pages that failed    *)
(* after its clone succeeded the directory is still there.                 *)
(***************************************************************************)
C9_CloneDirKept ==
  /\ [](Succeeded("git clone") # {} => ghPages)
  /\ [][ghPages => ghPages']_vars

\* publish_pages failed at its commit; the clone is left behind.
C9_Witness ==
  /\ pc = "failed"
  /\ Succeeded("git clone") # {}
  /\ log[Len(log)].cmd = "git commit"
  /\ ghPages

(***************************************************************************)
(* C10: a build run that got past its image stage, image built or          *)
(* skipped, stamps values.yaml (image.name = prefix + "binderhub",         *)
(* image.tag = lastChanged(IMAGE_FILES) of the repository build_values     *)
(* read) and then Chart.yaml; with --push it finishes only after           *)
(* publish_pages pushed, also when the image build was skipped.            *)
(***************************************************************************)
C10_StampAlways ==
  /\ pc \in {"bc_version", "bc_write", "done"} \cup PublishPcs /\ args.action = "build" =>
       /\ Cardinality(Ran("write values.yaml")) = 1
       /\ values.name = args.image_prefix \o <<"binderhub">>
       /\ values.tag = lastChanged(ImageContributing, Upto(seen.values))
  /\ pc \in {"done"} \cup PublishPcs /\ args.action = "build" =>
       /\ Cardinality(Ran("write Chart.yaml")) = 1
       /\ \A v \in Ran("write values.yaml") : \A c \in Ran("write Chart.yaml") : v < c
  /\ pc = "done" /\ args.action = "build" /\ args.push => Succeeded("git push") # {}

\* The image build was skipped, and the run stamped and published all the same.
C10_Witness ==
  /\ pc = "done"
  /\ UntouchedRange
  /\ args.push
  /\ Ran("docker build") = {}
  /\ Succeeded("git push") # {}
  /\ values.tag = lastChanged(ImageContributing, history)

====
